---- MODULE Spec2Model ----
(***************************************************************************)
(* A model of the AgET_TG Telegram bot (src/aget_tg.py, the webhook        *)
(* variant, and src/aget_tg_v1.py, the polling variant): the rate_limit    *)
(* decorator, the lru_cache'd price lookup, ask_gemini, the handle_message *)
(* router and the Flask webhook route.                                     *)
(*                                                                         *)
(* Text is a sequence of PIECES.  A piece is a run of characters that the  *)
(* code never looks inside: the phrase "price of" (in two spellings), a    *)
(* blank, a comma, a word, and a block of 1000 letters.  No piece ends     *)
(* with a proper prefix of "price of", so the phrase occurs in a text      *)
(* exactly where one of its pieces stands, and str.split / str.strip /     *)
(* str.lower / len act on pieces as they act on the characters.            *)
(***************************************************************************)
EXTENDS Integers, Sequences, FiniteSets, TLC

\* ------------------------------------------------------------------ bounds
NumTasks == 2          \* handler tasks the event loop may hold at once
MaxTime == 2           \* the loop clock runs 0..MaxTime
MaxWindow == 2         \* RATE_LIMIT_WINDOW is drawn from 0..MaxWindow
MaxLimit == 2          \* MAX_REQUESTS_PER_WINDOW is drawn from 0..MaxLimit
MaxRequests == 3       \* updates dispatched in one behaviour of Spec
MaxUpdates == 4        \* updates dispatched in one behaviour of SpecOneHandler
MaxTextLen == 4        \* pieces in a text handled under SpecRouter
MaxPosts == 2          \* updates POSTed in one behaviour of SpecWebhook
\* lru_cache(maxsize=100) at src/aget_tg.py:69.  The capacity is scaled down:
\* eviction needs maxsize + 1 distinct keys, whatever the capacity is.
maxsize == 2

\* ------------------------------------------------------- program constants
DEFAULT_RATE_LIMIT_WINDOW == 60
DEFAULT_MAX_REQUESTS_PER_WINDOW == 10
MAX_QUERY_LENGTH == 1000

Users == {"alice", "bob"}
Handlers == {"start", "help_command", "handle_message"}

\* -------------------------------------------------------------------- text
PRICE_OF == "price of"
Pieces == {"price of", "Price Of", " ", ",", "bitcoin", "ethereum", "z*1000"}

\* len() of one piece, in characters
PieceLen(p) ==
    CASE p \in {"price of", "Price Of", "ethereum"} -> 8
      [] p \in {"bitcoin", "Bitcoin"} -> 7
      [] p = "z*1000" -> 1000
      [] OTHER -> 1

\* str.lower() on one piece
LowerPiece(p) ==
    CASE p = "Price Of" -> "price of"
      [] p = "Bitcoin" -> "bitcoin"
      [] OTHER -> p

\* str.upper() on one piece
UpperPiece(p) ==
    CASE p \in {"price of", "Price Of"} -> "PRICE OF"
      [] p \in {"bitcoin", "Bitcoin"} -> "BITCOIN"
      [] p = "ethereum" -> "ETHEREUM"
      [] p = "z*1000" -> "Z*1000"
      [] OTHER -> p

RECURSIVE TextLen(_)
TextLen(s) == IF s = <<>> THEN 0 ELSE PieceLen(Head(s)) + TextLen(Tail(s))

Lower(s) == [i \in 1..Len(s) |-> LowerPiece(s[i])]
Upper(s) == [i \in 1..Len(s) |-> UpperPiece(s[i])]

\* `sep in s`
Contains(s, sep) == \E i \in 1..Len(s) : s[i] = sep

\* s.split(sep): the parts between the occurrences of sep, left to right
RECURSIVE Split(_, _)
Split(s, sep) ==
    IF Contains(s, sep)
    THEN LET i == CHOOSE i \in 1..Len(s) :
                      s[i] = sep /\ \A j \in 1..(i - 1) : s[j] # sep
         IN <<SubSeq(s, 1, i - 1)>> \o Split(SubSeq(s, i + 1, Len(s)), sep)
    ELSE <<s>>

\* s.lstrip(), s.rstrip(), s.strip()
RECURSIVE LStrip(_)
LStrip(s) == IF s # <<>> /\ Head(s) = " " THEN LStrip(Tail(s)) ELSE s
RECURSIVE RStrip(_)
RStrip(s) ==
    IF s # <<>> /\ s[Len(s)] = " " THEN RStrip(SubSeq(s, 1, Len(s) - 1)) ELSE s
Strip(s) == RStrip(LStrip(s))

\* sep.join(parts)
RECURSIVE Join(_, _)
Join(parts, sep) ==
    IF parts = <<>> THEN <<>>
    ELSE IF Len(parts) = 1 THEN parts[1]
    ELSE parts[1] \o <<sep>> \o Join(Tail(parts), sep)

\* all the texts of 1..n of these pieces (filters.TEXT passes no empty text;
\* the piece "Bitcoin" occurs in the messages of Messages only)
TextsUpTo(n) == UNION {[1..k -> Pieces] : k \in 1..n}

\* --------------------------------------------------------- remote services
\* What one HTTP GET to the quote service can do (src/aget_tg.py:76-78):
\*   quotes_1, quotes_2  200, every known id requested priced 1 (or 2) USD
\*   empty_object        200, body {}
\*   no_usd_field        200, every known id requested mapped to {}
\*   json_null           200, body null
\*   ConnectionError     requests.get raises (a RequestException)
\*   HTTPError           raise_for_status raises (a RequestException)
\*   JSONDecodeError     response.json() raises requests' JSONDecodeError
\*                       (a RequestException since requests 2.27)
\*   json_ValueError     response.json() raises a plain ValueError
\*                       (requests before 2.27)
QuoteOutcomes ==
    {"quotes_1", "quotes_2", "empty_object", "no_usd_field", "json_null",
     "ConnectionError", "HTTPError", "JSONDecodeError", "json_ValueError"}

\* What one generate_content call can do (src/aget_tg.py:121-124)
GenOutcomes == {"answer", "generate_error", "text_error"}

KnownIds == {<<"bitcoin">>, <<"ethereum">>}

EmptyDict == [kind |-> "dict", d |-> <<>>]
JsonNull == [kind |-> "null", d |-> <<>>]

\* The quote service's answer to GET ?ids=<key>&vs_currencies=usd
quote_service(key, out) ==
    LET asked == {k \in KnownIds : \E i \in 1..Len(Split(key, ",")) :
                                       Split(key, ",")[i] = k}
        priced(p) == [kind |-> "dict", d |-> [k \in asked |-> <<"usd", p>>]]
    IN CASE out = "quotes_1" -> [exc |-> "none", data |-> priced(1)]
         [] out = "quotes_2" -> [exc |-> "none", data |-> priced(2)]
         [] out = "empty_object" -> [exc |-> "none", data |-> EmptyDict]
         [] out = "no_usd_field" ->
                [exc |-> "none",
                 data |-> [kind |-> "dict", d |-> [k \in asked |-> <<>>]]]
         [] out = "json_null" -> [exc |-> "none", data |-> JsonNull]
         [] out = "json_ValueError" -> [exc |-> "ValueError", data |-> JsonNull]
         [] OTHER -> [exc |-> "RequestException", data |-> JsonNull]

\* ------------------------------------------------------------- replies
Literal(text) == [kind |-> "literal", text |-> text, lines |-> <<>>]
PriceLines(lines) == [kind |-> "prices", text |-> "", lines |-> lines]
TOO_MANY == Literal("Too many requests. Please wait before sending more messages.")
NO_PRICES == Literal("No prices found.")
PRICE_FAILED == Literal("Price lookup failed.")
INVALID_QUERY == Literal("Invalid query length.")
QUERY_FAILED == Literal("Query processing failed.")
GENERATED == Literal("<response.text>")
WELCOME == Literal("<welcome_text>")
HELP == Literal("<help_text>")
NoReply == Literal("")

\* ------------------------------------------------------ price lookup client
\* The cache of lru_cache: entries [key, value], least recently used first.
cache_index(c, key) == CHOOSE i \in 1..Len(c) : c[i].key = key

cache_hit_never(c, key) == FALSE

\* is `key` in the lru_cache?
cache_hit(c, key) == \E i \in 1..Len(c) : c[i].key = key

\* a hit makes the entry the most recently used
cache_touch(c, key) ==
    LET i == cache_index(c, key)
    IN SubSeq(c, 1, i - 1) \o SubSeq(c, i + 1, Len(c)) \o <<c[i]>>

\* a miss that returned stores the result, evicting the least recently used
cache_store(c, key, value) ==
    LET full == Append(c, [key |-> key, value |-> value])
    IN IF Len(full) > maxsize THEN Tail(full) ELSE full

\* a miss that returned `value`
cache_miss_returned(c, key, value) ==
    [raised |-> FALSE, value |-> value, cache |-> cache_store(c, key, value),
     http |-> 1, failed |-> FALSE]

\* the body of get_cached_crypto_prices, given the HTTP exchange r: a
\* RequestException is caught and {} returned; a ValueError is not a
\* RequestException, it leaves the function and lru_cache stores nothing
fetch_crypto_prices(c, key, r) ==
    IF r.exc = "ValueError"
    THEN [raised |-> TRUE, value |-> JsonNull, cache |-> c, http |-> 1,
          failed |-> TRUE]
    ELSE IF r.exc = "RequestException"
    THEN [cache_miss_returned(c, key, EmptyDict) EXCEPT !.failed = TRUE]
    ELSE cache_miss_returned(c, key, r.data)

\* @lru_cache(maxsize=100) def get_cached_crypto_prices(crypto_ids)
get_cached_crypto_prices(c, key, out) ==
    IF cache_hit(c, key)
    THEN [raised |-> FALSE, value |-> c[cache_index(c, key)].value,
          cache |-> cache_touch(c, key), http |-> 0, failed |-> FALSE]
    ELSE fetch_crypto_prices(c, key, quote_service(key, out))

\* the for loop of get_crypto_prices: raises on `in None` and on a missing
\* "usd"; otherwise the lines of the identifiers found, in input order
format_raises(crypto_ids, data) ==
    \/ data.kind = "null"
    \/ \E i \in 1..Len(crypto_ids) :
          /\ Lower(crypto_ids[i]) \in DOMAIN data.d
          /\ data.d[Lower(crypto_ids[i])] = <<>>

RECURSIVE format_prices(_, _)
format_prices(crypto_ids, data) ==
    IF crypto_ids = <<>> THEN <<>>
    ELSE LET crypto_id == Lower(Head(crypto_ids))
             rest == format_prices(Tail(crypto_ids), data)
         IN IF crypto_id \in DOMAIN data.d
            THEN <<<<Upper(crypto_id), data.d[crypto_id][2]>>>> \o rest
            ELSE rest

\* "\n".join(prices) if prices else "No prices found."
joined(prices) == IF prices # <<>> THEN PriceLines(prices) ELSE NO_PRICES

\* the try block of get_crypto_prices after the lookup returned `got`
prices_reply(crypto_ids, crypto_str, got) ==
    IF got.raised \/ format_raises(crypto_ids, got.value)
    THEN [raised |-> TRUE, value |-> NoReply, cache |-> got.cache,
          http |-> got.http, failed |-> got.failed, key |-> crypto_str]
    ELSE [raised |-> FALSE, value |-> joined(format_prices(crypto_ids, got.value)),
          cache |-> got.cache, http |-> got.http, failed |-> got.failed,
          key |-> crypto_str]

\* crypto_str = ",".join(crypto_ids).lower()
crypto_str_of(crypto_ids) == Lower(Join(crypto_ids, ","))

\* the try block of get_crypto_prices
get_crypto_prices_try(c, crypto_ids, out) ==
    prices_reply(crypto_ids, crypto_str_of(crypto_ids),
                 get_cached_crypto_prices(c, crypto_str_of(crypto_ids), out))

\* except Exception: return "Price lookup failed."
except_Exception(r, failed) ==
    IF r.raised THEN [r EXCEPT !.raised = FALSE, !.value = failed] ELSE r

get_crypto_prices_uncaught(c, crypto_ids, out) ==
    get_crypto_prices_try(c, crypto_ids, out)

\* async def get_crypto_prices(crypto_ids): try ... except Exception
get_crypto_prices(c, crypto_ids, out) ==
    except_Exception(get_crypto_prices_try(c, crypto_ids, out), PRICE_FAILED)

\* --------------------------------------------------- assistant query client
\* async def ask_gemini(question)
ask_gemini(question, out) ==
    IF question = <<>> \/ TextLen(question) > MAX_QUERY_LENGTH
    THEN [raised |-> FALSE, value |-> INVALID_QUERY, gem |-> 0]
    ELSE IF out = "answer"
    THEN [raised |-> FALSE, value |-> GENERATED, gem |-> 1]
    ELSE [raised |-> FALSE, value |-> QUERY_FAILED, gem |-> 1]

\* ------------------------------------------------------------ message router
crypto_names_first(user_message) ==
    LET after == Strip(Split(user_message, PRICE_OF)[2])
        names == Split(after, ",")
    IN [i \in 1..Len(names) |-> Lower(Strip(names[i]))]

\* user_message.split("price of")[-1].strip().split(","), each name stripped
\* and lowercased
crypto_names(user_message) ==
    LET parts == Split(user_message, PRICE_OF)
        after == Strip(parts[Len(parts)])
        names == Split(after, ",")
    IN [i \in 1..Len(names) |-> Lower(Strip(names[i]))]

\* response = await get_crypto_prices(crypto_names);
\* await update.message.reply_text(response)
price_turn(names, r) ==
    [client |-> "get_crypto_prices", names |-> names, question |-> <<>>,
     key |-> r.key, raised |-> r.raised, response |-> r.value,
     cache |-> r.cache, http |-> r.http, failed |-> r.failed, gem |-> 0,
     sent |-> IF r.raised THEN <<>> ELSE <<r.value>>]

\* response = await ask_gemini(user_message);
\* await update.message.reply_text(response)
gemini_turn(c, user_message, r) ==
    [client |-> "ask_gemini", names |-> <<>>, question |-> user_message,
     key |-> <<>>, raised |-> r.raised, response |-> r.value, cache |-> c,
     http |-> 0, failed |-> FALSE, gem |-> r.gem,
     sent |-> IF r.raised THEN <<>> ELSE <<r.value>>]

\* handle_message once user_message = update.message.text.lower()
route(c, user_message, qout, gout) ==
    IF Contains(user_message, PRICE_OF)
    THEN price_turn(crypto_names(user_message),
                    get_crypto_prices(c, crypto_names(user_message), qout))
    ELSE gemini_turn(c, user_message, ask_gemini(user_message, gout))

\* async def handle_message(update, context), the decorated function's body
handle_message(c, text, qout, gout) == route(c, Lower(text), qout, gout)

\* ------------------------------------------------------------------- state
VARIABLES
    RATE_LIMIT_WINDOW,        \* Config.RATE_LIMIT_WINDOW
    MAX_REQUESTS_PER_WINDOW,  \* Config.MAX_REQUESTS_PER_WINDOW
    now,                      \* asyncio.get_event_loop().time()
    request_times,            \* the request_times dict of each decorated handler
    pc,                       \* how many handler tasks are suspended, and where
    cache,                    \* the lru_cache of get_cached_crypto_prices
    unawaited,                \* coroutines process_update() returned to webhook()
    inbox,                    \* the text handled under SpecRouter
    focus,                    \* the handlers that receive updates
    dispatched,               \* updates dispatched so far
    accepted,                 \* history: the times each limiter accepted a user
    was_rejected,             \* history: the limiter's last answer to a user
    earlier,                  \* history: the last reply given for each cache key
    last                      \* history: what the last operation did

vars == <<RATE_LIMIT_WINDOW, MAX_REQUESTS_PER_WINDOW, now, request_times, pc,
          cache, unawaited, inbox, focus, dispatched, accepted, was_rejected,
          earlier, last>>

config == <<RATE_LIMIT_WINDOW, MAX_REQUESTS_PER_WINDOW, focus>>

\* The messages users send under Spec, SpecClients and SpecWebhook
MSG_BTC_ETH == <<"price of", " ", "bitcoin", ",", " ", "ethereum">>
MSG_ETH_BTC == <<"price of", " ", "ethereum", ",", "bitcoin">>
MSG_BTC == <<"Price Of", " ", "Bitcoin">>
MSG_QUESTION == <<"ethereum">>
MSG_LONG == <<"z*1000", " ", "bitcoin">>
Messages == {MSG_BTC_ETH, MSG_ETH_BTC, MSG_BTC, MSG_QUESTION, MSG_LONG}

NoLast ==
    [op |-> "none", handler |-> "none", user |-> "nobody", time |-> 0,
     text |-> <<>>,
     known |-> FALSE, blocked |-> FALSE, before |-> <<>>, after |-> <<>>, n_recent |-> 0,
     reject |-> FALSE, ran |-> FALSE, sent |-> <<>>, http |-> 0, gem |-> 0,
     client |-> "none", names |-> <<>>, question |-> <<>>, key |-> <<>>,
     response |-> NoReply, raised |-> FALSE, hit_before |-> FALSE,
     seen_before |-> FALSE, prev_reply |-> NoReply, prev_failed |-> FALSE,
     cache_same |-> TRUE]

InitWith(window, limit, handlers, text) ==
    /\ RATE_LIMIT_WINDOW = window
    /\ MAX_REQUESTS_PER_WINDOW = limit
    /\ now = 0
    /\ request_times = [h \in Handlers |-> <<>>]
    /\ pc = [reject_reply |-> 0, reply |-> 0]
    /\ cache = <<>>
    /\ unawaited = <<>>
    /\ inbox = text
    /\ focus = handlers
    /\ dispatched = 0
    /\ accepted = [h \in Handlers |-> [u \in Users |-> <<>>]]
    /\ was_rejected = [h \in Handlers |-> [u \in Users |-> FALSE]]
    /\ earlier = <<>>
    /\ last = NoLast

\* int(os.getenv('RATE_LIMIT_WINDOW', 60)), int(os.getenv(
\* 'MAX_REQUESTS_PER_WINDOW', 10)): any integers.  A value below 0 behaves
\* as 0 does (no t has now - t < RATE_LIMIT_WINDOW; every length is
\* >= MAX_REQUESTS_PER_WINDOW), so 0 stands for them.
Init ==
    \E window \in 0..MaxWindow, limit \in 0..MaxLimit :
        InitWith(window, limit, Handlers, <<>>)

\* ------------------------------------------------------------ rate limiter
stored_on_accept_overwrite(recent_requests, current_time) == <<current_time>>

\* recent_requests.append(current_time); request_times[user_id] = recent_requests
stored_on_accept(recent_requests, current_time) ==
    Append(recent_requests, current_time)

\* [t for t in request_times[user_id] if current_time - t < RATE_LIMIT_WINDOW]
recent(times, current_time) ==
    SelectSeq(times, LAMBDA t : current_time - t < RATE_LIMIT_WINDOW)

\* len(recent_requests) >= Config.MAX_REQUESTS_PER_WINDOW
limit_reached(recent_requests) ==
    Len(recent_requests) >= MAX_REQUESTS_PER_WINDOW

\* the `if user_id in request_times` branch of wrapper
check_window(times, user_id, current_time, recent_requests) ==
    IF limit_reached(recent_requests)
    THEN [reject |-> TRUE, times |-> times]
    ELSE [reject |-> FALSE,
          times |-> (user_id :> stored_on_accept(recent_requests, current_time))
                    @@ times]

\* wrapper(update, context) up to `return await func(update, context)`:
\* whether it rejects, and the dict it leaves
rate_limit(times, user_id, current_time) ==
    IF user_id \in DOMAIN times
    THEN check_window(times, user_id, current_time,
                      recent(times[user_id], current_time))
    ELSE [reject |-> FALSE, times |-> (user_id :> <<current_time>>) @@ times]

StoredFor(times, user_id) ==
    IF user_id \in DOMAIN times THEN times[user_id] ELSE <<>>

\* how many of the times in log are within the window that ends at t
CountRecent(log, t) ==
    Cardinality({i \in 1..Len(log) :
                    log[i] <= t /\ t - log[i] < RATE_LIMIT_WINDOW})

\* the decorated function, run up to its first suspension (handle_message
\* awaits nothing before its reply: requests.get and generate_content block)
func(h, c, text, qout, gout) ==
    CASE h = "start" ->
           [client |-> "none", names |-> <<>>, question |-> <<>>, key |-> <<>>,
            raised |-> FALSE, response |-> WELCOME, cache |-> c, http |-> 0,
            failed |-> FALSE, gem |-> 0, sent |-> <<WELCOME>>]
      [] h = "help_command" ->
           [client |-> "none", names |-> <<>>, question |-> <<>>, key |-> <<>>,
            raised |-> FALSE, response |-> HELP, cache |-> c, http |-> 0,
            failed |-> FALSE, gem |-> 0, sent |-> <<HELP>>]
      [] OTHER -> handle_message(c, text, qout, gout)

NoEarlier == [reply |-> NoReply, failed |-> FALSE]
EarlierFor(key) == IF key \in DOMAIN earlier THEN earlier[key] ELSE NoEarlier

\* the history a call of the decorated function leaves
Remember(r) ==
    IF r.client = "get_crypto_prices"
    THEN (r.key :> [reply |-> r.response, failed |-> r.failed]) @@ earlier
    ELSE earlier

\* what a call of the decorated function did, for the history
Ran(seen, r) ==
    [seen EXCEPT
       !.ran = TRUE, !.sent = r.sent, !.http = r.http, !.gem = r.gem,
       !.client = r.client, !.names = r.names, !.question = r.question,
       !.key = r.key, !.response = r.response, !.raised = r.raised,
       !.cache_same = (r.cache = cache),
       !.hit_before = (r.client = "get_crypto_prices"
                       /\ \E i \in 1..Len(cache) : cache[i].key = r.key),
       !.seen_before = (r.client = "get_crypto_prices"
                        /\ r.key \in DOMAIN earlier),
       !.prev_reply = IF r.client = "get_crypto_prices"
                      THEN EarlierFor(r.key).reply ELSE NoReply,
       !.prev_failed = (r.client = "get_crypto_prices"
                        /\ EarlierFor(r.key).failed)]

\* what the wrapper saw and decided, for the history
Seen(h, u, text, rl) ==
    [NoLast EXCEPT
       !.op = "wrapper", !.handler = h, !.user = u, !.time = now,
       !.text = text,
       !.known = (u \in DOMAIN request_times[h]),
       !.blocked = was_rejected[h][u],
       !.before = StoredFor(request_times[h], u),
       !.after = StoredFor(rl.times, u),
       !.n_recent = CountRecent(accepted[h][u], now),
       !.reject = rl.reject]

\* the wrapper decided rl; r is what the decorated function does if it runs
Deliver(h, u, rl, r, seen) ==
    /\ request_times' = [request_times EXCEPT ![h] = rl.times]
    /\ was_rejected' = [was_rejected EXCEPT ![h][u] = rl.reject]
    /\ IF rl.reject
       THEN /\ pc' = [pc EXCEPT !.reject_reply = @ + 1]
            /\ last' = [seen EXCEPT !.sent = <<TOO_MANY>>]
            /\ UNCHANGED <<cache, accepted, earlier>>
       ELSE /\ pc' = [pc EXCEPT !.reply = IF r.raised THEN @ ELSE @ + 1]
            /\ cache' = r.cache
            /\ accepted' = [accepted EXCEPT ![h][u] = Append(@, now)]
            /\ earlier' = Remember(r)
            /\ last' = Ran(seen, r)

Decide(h, u, text, rl, r) == Deliver(h, u, rl, r, Seen(h, u, text, rl))

\* One update dispatched to handler h for user u: the wrapper, and the
\* decorated function when the wrapper lets it run, up to the first await.
Request(h, u, text, qout, gout) ==
    /\ h \in focus
    /\ pc.reject_reply + pc.reply < NumTasks
    /\ dispatched < (IF focus = Handlers THEN MaxRequests ELSE MaxUpdates)
    /\ dispatched' = dispatched + 1
    /\ Decide(h, u, text, rate_limit(request_times[h], u, now),
              func(h, cache, text, qout, gout))
    /\ UNCHANGED <<config, now, unawaited, inbox>>

\* the "Too many requests" reply_text returns and the wrapper returns None
CompleteReject ==
    /\ pc.reject_reply > 0
    /\ pc' = [pc EXCEPT !.reject_reply = @ - 1]
    /\ UNCHANGED <<config, now, request_times, cache, unawaited, inbox,
                   dispatched, accepted, was_rejected, earlier, last>>

\* the handler's reply_text returns and the handler returns
CompleteReply ==
    /\ pc.reply > 0
    /\ pc' = [pc EXCEPT !.reply = @ - 1]
    /\ UNCHANGED <<config, now, request_times, cache, unawaited, inbox,
                   dispatched, accepted, was_rejected, earlier, last>>

\* the loop clock advances
Tick ==
    /\ now < MaxTime
    /\ now' = now + 1
    /\ UNCHANGED <<config, request_times, pc, cache, unawaited, inbox,
                   dispatched, accepted, was_rejected, earlier, last>>

\* The updates of Spec: the two commands, and a message for each client
DispatchCommand ==
    \E u \in Users, h \in {"start", "help_command"} :
        Request(h, u, <<>>, "quotes_1", "answer")

DispatchMessage ==
    \E u \in Users, text \in {MSG_BTC, MSG_QUESTION} :
        Request("handle_message", u, text, "quotes_1", "answer")

Next ==
    \/ DispatchCommand
    \/ DispatchMessage
    \/ CompleteReject
    \/ CompleteReply
    \/ Tick

Spec == Init /\ [][Next]_vars

\* The same loop when the updates all go to one handler
InitOneHandler ==
    \E window \in 0..MaxWindow, limit \in 0..MaxLimit, h \in Handlers :
        InitWith(window, limit, {h}, <<>>)

DispatchOne ==
    \E u \in Users, h \in Handlers :
        Request(h, u, IF h = "handle_message" THEN MSG_QUESTION ELSE <<>>,
                "quotes_1", "answer")

NextOneHandler ==
    \/ DispatchOne
    \/ CompleteReject
    \/ CompleteReply
    \/ Tick

SpecOneHandler == InitOneHandler /\ [][NextOneHandler]_vars

\* ----------------------------------------------- the clients and the router
\* A text message the limiter let through: the decorated handle_message,
\* up to its reply_text
Handled(text, r) ==
    /\ pc' = [pc EXCEPT !.reply = IF r.raised THEN @ ELSE @ + 1]
    /\ cache' = r.cache
    /\ earlier' = Remember(r)
    /\ last' = Ran([NoLast EXCEPT !.op = "handle_message", !.text = text,
                                  !.handler = "handle_message"], r)

HandleMessage(text, qout, gout) ==
    /\ pc.reject_reply + pc.reply < NumTasks
    /\ Handled(text, handle_message(cache, text, qout, gout))
    /\ UNCHANGED <<config, now, request_times, unawaited, inbox, dispatched,
                   accepted, was_rejected>>

\* SpecClients: the messages of Messages, one after the other, against a
\* quote service that answers, fails or sends an undecodable body
ClientQuoteOutcomes ==
    {"quotes_1", "quotes_2", "ConnectionError", "json_ValueError"}

InitClients ==
    InitWith(DEFAULT_RATE_LIMIT_WINDOW, DEFAULT_MAX_REQUESTS_PER_WINDOW,
             {"handle_message"}, <<>>)

PriceMessage ==
    \E text \in {MSG_BTC_ETH, MSG_ETH_BTC, MSG_BTC},
       qout \in ClientQuoteOutcomes :
        HandleMessage(text, qout, "answer")

QuestionMessage ==
    \E text \in {MSG_QUESTION, MSG_LONG}, gout \in GenOutcomes :
        HandleMessage(text, "quotes_1", gout)

NextClients ==
    \/ PriceMessage
    \/ QuestionMessage
    \/ CompleteReply

SpecClients == InitClients /\ [][NextClients]_vars

\* SpecRouter: one text, any text of up to MaxTextLen pieces or one of
\* Messages, handled once against any behaviour of the two services; and
\* ask_gemini called on that text, or on the empty text
InitRouter ==
    \E text \in TextsUpTo(MaxTextLen) \cup Messages \cup {<<>>} :
        InitWith(DEFAULT_RATE_LIMIT_WINDOW, DEFAULT_MAX_REQUESTS_PER_WINDOW,
                 {"handle_message"}, text)

RouteInbox ==
    /\ last.op = "none"
    /\ inbox # <<>>
    /\ \E qout \in QuoteOutcomes, gout \in GenOutcomes :
           HandleMessage(inbox, qout, gout)

\* ask_gemini(inbox)
asked(r) ==
    [NoLast EXCEPT !.op = "ask_gemini", !.client = "ask_gemini",
                   !.question = inbox, !.response = r.value,
                   !.raised = r.raised, !.gem = r.gem]

AskInbox ==
    /\ last.op = "none"
    /\ \E gout \in GenOutcomes : last' = asked(ask_gemini(inbox, gout))
    /\ UNCHANGED <<config, now, request_times, pc, cache, unawaited, inbox,
                   dispatched, accepted, was_rejected, earlier>>

NextRouter ==
    \/ RouteInbox
    \/ AskInbox

SpecRouter == InitRouter /\ [][NextRouter]_vars

\* ------------------------------------------------------------- the webhook
\* The updates Telegram POSTs
WebhookUpdates ==
    [user : Users, kind : {"/start", "/help"}, text : {<<>>}]
    \cup [user : Users, kind : {"text"}, text : Messages]

\* process_update is a coroutine function (`async def` in the Application of
\* python-telegram-bot 20, the version whose Application.builder(), filters
\* and ContextTypes the file uses): the call in the Flask view makes a
\* coroutine object, which the view neither awaits nor hands to a loop
process_update(coroutines, update) == Append(coroutines, update)

\* def webhook(): process_update(update); return 'OK'
Webhook(update) ==
    /\ Len(unawaited) < MaxPosts
    /\ unawaited' = process_update(unawaited, update)
    /\ last' = [NoLast EXCEPT !.op = "webhook", !.user = update.user,
                              !.text = update.text, !.response = Literal("OK")]
    /\ UNCHANGED <<config, now, request_times, pc, cache, inbox, dispatched,
                   accepted, was_rejected, earlier>>

InitWebhook ==
    InitWith(DEFAULT_RATE_LIMIT_WINDOW, DEFAULT_MAX_REQUESTS_PER_WINDOW,
             Handlers, <<>>)

NextWebhook == \E update \in WebhookUpdates : Webhook(update)

\* Flask serves every POST it receives
SpecWebhook == InitWebhook /\ [][NextWebhook]_vars /\ WF_vars(NextWebhook)

\* ------------------------------------------------- claims: the rate limiter
Oldest(times) == CHOOSE t \in {times[i] : i \in 1..Len(times)} :
                    \A i \in 1..Len(times) : t <= times[i]

NonDecreasing(times) ==
    \A i \in 1..Len(times), j \in 1..Len(times) : i <= j => times[i] <= times[j]

\* C1: whenever the number N of the user's accepted requests within the
\* window is >= MAX_REQUESTS_PER_WINDOW (N may be 0, the call may be the
\* user's first), the call is rejected: the user is sent "Too many requests",
\* the handler does not run, no remote call is made and the user's stored
\* timestamps are left as they were.
C1_RejectsAtLimit ==
    (last.op = "wrapper" /\ last.n_recent >= MAX_REQUESTS_PER_WINDOW)
        => /\ last.reject
           /\ last.sent = <<TOO_MANY>>
           /\ ~last.ran
           /\ last.http = 0 /\ last.gem = 0
           /\ last.after = last.before

\* C2: over /start, /help and text messages together, at most
\* MAX_REQUESTS_PER_WINDOW requests of one user are accepted within any
\* trailing window (checked at every instant, for the window that ends
\* there; stated for limits of at least 1, where each single limiter keeps
\* its bound).
AcceptedInWindow(u) ==
    CountRecent(accepted["start"][u], now)
    + CountRecent(accepted["help_command"][u], now)
    + CountRecent(accepted["handle_message"][u], now)

C2_OneWindowPerUser ==
    MAX_REQUESTS_PER_WINDOW >= 1
        => \A u \in Users : AcceptedInWindow(u) <= MAX_REQUESTS_PER_WINDOW

\* C3: a user the limiter last rejected, whose oldest stored timestamp t has
\* now - t >= RATE_LIMIT_WINDOW, has the next request accepted and recorded
\* (stated for windows of at least 1 second, so that the clock has advanced).
C3_AllowedAfterWindow ==
    (/\ last.op = "wrapper"
     /\ RATE_LIMIT_WINDOW >= 1
     /\ last.blocked
     /\ last.before # <<>>
     /\ last.time - Oldest(last.before) >= RATE_LIMIT_WINDOW)
        => /\ ~last.reject
           /\ last.ran
           /\ \E i \in 1..Len(last.after) : last.after[i] = last.time

\* C7: right after every evaluated call of the limiter at time now, accepted
\* or rejected, every timestamp stored for the user has
\* now - t < RATE_LIMIT_WINDOW and the stored sequence is in non-decreasing
\* order (stated for windows of at least 1 second).
C7_StoredWithinWindow ==
    (last.op = "wrapper" /\ RATE_LIMIT_WINDOW >= 1)
        => /\ \A i \in 1..Len(last.after) :
                  last.time - last.after[i] < RATE_LIMIT_WINDOW
           /\ NonDecreasing(last.after)

\* C10: however the tasks of one rate-limited handler interleave, no accepted
\* timestamp that is still within the window is missing from the stored
\* sequence, a rejection writes nothing, and for a limit of at least 1 the
\* limiter never has more than MAX_REQUESTS_PER_WINDOW accepted requests of a
\* user within the window.
C10_NoLostTimestamp ==
    /\ \A h \in Handlers, u \in Users :
          /\ recent(StoredFor(request_times[h], u), now)
                 = recent(accepted[h][u], now)
          /\ MAX_REQUESTS_PER_WINDOW >= 1
                 => CountRecent(accepted[h][u], now) <= MAX_REQUESTS_PER_WINDOW
    /\ (last.op = "wrapper" /\ last.reject) => last.after = last.before

\* a request rejected at the limit while an accepted task of the same
\* handler is still suspended in its reply
C10_Witness ==
    /\ last.op = "wrapper" /\ last.reject
    /\ MAX_REQUESTS_PER_WINDOW = 2 /\ last.n_recent = 2
    /\ pc.reply >= 1 /\ pc.reject_reply >= 1
    /\ Len(accepted[last.handler][last.user]) >= 2

\* ------------------------------------- claims: the clients and the router
PriceTurn == last.op = "handle_message" /\ last.client = "get_crypto_prices"

\* C4, as claimed: a price lookup whose key equals that of an earlier lookup
\* returns the earlier reply and issues no HTTP request (stated for an
\* earlier lookup that returned prices or "No prices found.").
C4_RepeatNeverFetches ==
    (PriceTurn /\ last.seen_before /\ last.prev_reply # PRICE_FAILED)
        => (last.http = 0 /\ last.response = last.prev_reply)

\* C4, amended: a price lookup whose key is still in the lru_cache returns
\* the reply of the last lookup with that key and issues no HTTP request; a
\* lookup whose key is not in the cache issues exactly one; and the key keeps
\* the order of the identifiers, so "bitcoin,ethereum" and
\* "ethereum,bitcoin" are two keys.
C4_CachedRepeatDoesNotFetch ==
    PriceTurn =>
        /\ last.hit_before => (last.http = 0 /\ last.response = last.prev_reply)
        /\ ~last.hit_before => last.http = 1
        /\ last.text = MSG_BTC_ETH => last.key = <<"bitcoin", ",", "ethereum">>
        /\ last.text = MSG_ETH_BTC => last.key = <<"ethereum", ",", "bitcoin">>

\* the lookup "bitcoin,ethereum" answered from the cache with prices while
\* "ethereum,bitcoin" is cached as another entry
C4_Witness ==
    /\ PriceTurn /\ last.hit_before /\ last.http = 0
    /\ last.text = MSG_BTC_ETH
    /\ last.response.kind = "prices"
    /\ \E i \in 1..Len(cache) : cache[i].key = <<"ethereum", ",", "bitcoin">>

\* C8: after a turn whose HTTP request for a key failed, the next lookup
\* with the same key contacts the quote service again.
C8_FailureNotRemembered ==
    (PriceTurn /\ last.seen_before /\ last.prev_failed) => last.http = 1

\* -- the router, stated on the pieces of the text, not with Split and Strip
IsPhrase(p) == p \in {"price of", "Price Of"}
HasPhrase(text) == \E i \in 1..Len(text) : IsPhrase(text[i])
LastPhrase(text) ==
    CHOOSE i \in 1..Len(text) :
        IsPhrase(text[i]) /\ \A j \in (i + 1)..Len(text) : ~IsPhrase(text[j])
\* the positions of the text after the last phrase, and the commas there
AfterPhrase(text) == (LastPhrase(text) + 1)..Len(text)
Commas(text) == {i \in AfterPhrase(text) : text[i] = ","}
\* the n-th name lies between the (n-1)-th and the n-th comma
NameStart(text, n) ==
    IF n = 1 THEN LastPhrase(text) + 1
    ELSE 1 + CHOOSE i \in Commas(text) :
                 Cardinality({j \in Commas(text) : j < i}) = n - 2
NameEnd(text, n) ==
    IF n = Cardinality(Commas(text)) + 1 THEN Len(text)
    ELSE (CHOOSE i \in Commas(text) :
              Cardinality({j \in Commas(text) : j < i}) = n - 1) - 1
\* the pieces of the n-th name that are not blanks at its ends
NameKept(text, n) ==
    {i \in NameStart(text, n)..NameEnd(text, n) :
        /\ \E j \in NameStart(text, n)..i : text[j] # " "
        /\ \E j \in i..NameEnd(text, n) : text[j] # " "}
ExpectedName(text, n) ==
    LET kept == NameKept(text, n)
    IN IF kept = {} THEN <<>>
       ELSE LET first == CHOOSE i \in kept : \A j \in kept : i <= j
            IN [i \in 1..Cardinality(kept) |-> LowerPiece(text[first + i - 1])]
ExpectedNames(text) ==
    [n \in 1..(Cardinality(Commas(text)) + 1) |-> ExpectedName(text, n)]

PriceReplies(r) == r.kind = "prices" \/ r \in {NO_PRICES, PRICE_FAILED}

\* C5: handle_message calls exactly one client: get_crypto_prices, with the
\* comma-separated, trimmed names after the last "price of" of the
\* lowercased text, when the text contains "price of"; ask_gemini, with the
\* whole lowercased text, otherwise; and it replies what that client
\* returned.
C5_RoutesToOneClient ==
    last.op = "handle_message" =>
        /\ last.sent = <<last.response>>
        /\ IF HasPhrase(last.text)
           THEN /\ last.client = "get_crypto_prices"
                /\ last.names = ExpectedNames(last.text)
                /\ last.gem = 0
                /\ PriceReplies(last.response)
           ELSE /\ last.client = "ask_gemini"
                /\ last.question
                       = [i \in 1..Len(last.text) |-> LowerPiece(last.text[i])]
                /\ last.http = 0 /\ last.cache_same
                /\ last.response \in {GENERATED, QUERY_FAILED, INVALID_QUERY}

\* "price of bitcoin, ethereum" went to the price client as
\* ["bitcoin", "ethereum"]
C5_Witness ==
    /\ last.op = "handle_message"
    /\ last.text = MSG_BTC_ETH
    /\ last.client = "get_crypto_prices"
    /\ last.names = << <<"bitcoin">>, <<"ethereum">> >>
    /\ last.response.kind = "prices"

\* C6: whatever the two services do, handle_message raises nothing and sends
\* exactly one reply, after at most one remote call; and ask_gemini answers
\* "Invalid query length." without a call to the generation service exactly
\* when the question is empty or longer than 1000 characters.
C6_FailuresAbsorbed ==
    /\ last.op = "handle_message" =>
          /\ ~last.raised
          /\ Len(last.sent) = 1
          /\ last.http + last.gem <= 1
    /\ (last.op # "none" /\ last.client = "ask_gemini") =>
          /\ ~last.raised
          /\ IF last.question = <<>> \/ TextLen(last.question) > MAX_QUERY_LENGTH
             THEN last.response = INVALID_QUERY /\ last.gem = 0
             ELSE last.response \in {GENERATED, QUERY_FAILED} /\ last.gem = 1

\* a price lookup whose HTTP request was made and whose failure became the
\* reply "Price lookup failed."
C6_Witness ==
    /\ PriceTurn /\ last.http = 1
    /\ last.response = PRICE_FAILED
    /\ last.sent = <<PRICE_FAILED>>

\* ------------------------------------------------------ claims: the webhook
Unawaited(update) == \E i \in 1..Len(unawaited) : unawaited[i] = update

\* C9: every update POSTed to the webhook is handled in the end: the
\* coroutine process_update made for it does not stay unawaited.
C9_WebhookUpdateHandled ==
    \A update \in WebhookUpdates : Unawaited(update) ~> ~Unawaited(update)

====
